---- MODULE Spec2Model ----
(***************************************************************************)
(* State-machine model of vidstab: PopDeque, FrameQueue and the three      *)
(* entry points of VidStab (gen_transforms, stabilize, stabilize_frame).   *)
(*                                                                         *)
(* Frames are identified by their input index (position in the video       *)
(* source, or ordinal of the non-None array handed to stabilize_frame).    *)
(* A raw transform row is the pair <<a, b>> of the two frames the motion   *)
(* was estimated between (prev_gray's frame, frames[-1]).  Row i of        *)
(* transforms is derived from raw rows 0..i, so it is represented by raw   *)
(* row i; what the model tracks is which rows exist and which row is       *)
(* applied to which frame.  The trajectory arrays are computed from the    *)
(* rows as vectors; SpecTrajectory runs the same arithmetic on arbitrary   *)
(* small rows (dx, dy, da) and there transforms holds the rows' values.    *)
(***************************************************************************)
EXTENDS Integers, Sequences, FiniteSets, TLC

\* ---------------------------------------------------------------- bounds
MaxWindow == 3      \* smoothing_window ranges over 1..MaxWindow
MaxFrames == 4      \* a video source holds 0..MaxFrames frames
MaxFeed   == 6      \* non-None arrays handed to stabilize_frame
MaxRuns   == 1      \* batch calls (stabilize / gen_transforms) per object
MaxCap    == 2      \* finite max_frames arguments range over 1..MaxCap
MaxRows   == 3      \* raw rows appended to a trajectory store on its own

\* Python's None (for integer-valued fields) and float('inf')
None == -1
Inf  == 1000000

\* self.transforms = None : a one-row sentinel no estimation can produce
NoTransforms == << <<None, None>> >>

VARIABLES
    window,              \* the smoothing_window argument the caller uses
    frame_queue,         \* self.frame_queue (FrameQueue fields)
    _raw_transforms,     \* self._raw_transforms
    prev_gray,           \* self.prev_gray / prev_kps: frame they were taken from
    _trajectory,         \* self._trajectory
    trajectory,          \* self.trajectory
    smoothed_trajectory, \* self.smoothed_trajectory, times Factorial(window)
    transforms,          \* self.transforms
    border_options,      \* self.border_options
    layer_options,       \* self.layer_options
    ngen,                \* number of _gen_transforms calls so far
    writer,              \* self.writer: "None" | "open"
    auto_border_flag,    \* self.auto_border_flag
    _default_stabilize_frame_output,   \* "None" | "black"
    pc,                  \* where control is: "idle" | "init" | "populate" | "apply"
    call,                \* arguments / locals of the batch call in progress
    written,             \* frames written to the output of the current stabilize call
    ret,                 \* outcome of the last completed call
    hist,                \* history of the calls made on the object
    new_frame,           \* the Frame object constructed last (frame.py)
    estimator,           \* the motion estimator's fields of a VidStab object
    borders              \* frame shapes and border sizes of one call

\* the fields of the VidStab object and of the call in progress
stabilizer == << window, frame_queue, _raw_transforms, prev_gray, _trajectory,
           trajectory, smoothed_trajectory, transforms, border_options,
           layer_options, ngen, writer, auto_border_flag,
           _default_stabilize_frame_output, pc, call, written, ret, hist >>

\* objects of the helper classes and functions, checked on their own
aside == << new_frame, estimator, borders >>

vars == << stabilizer, aside >>

Min(a, b) == IF a <= b THEN a ELSE b
Max(a, b) == IF a >= b THEN a ELSE b
Last(s)   == s[Len(s)]

\* ------------------------------------------------------------- PopDeque
deque_full(d, maxlen) == Len(d) = maxlen

\* mutants of pop_append: the newest element is popped; nothing is popped
pop_append_newest(d, maxlen, x) ==
    IF deque_full(d, maxlen)
    THEN [deque |-> Append(SubSeq(d, 1, Len(d) - 1), x), popped_element |-> Last(d)]
    ELSE [deque |-> Append(d, x),                        popped_element |-> None]

pop_append_unbounded(d, maxlen, x) ==
    [deque |-> Append(d, x), popped_element |-> None]

\* pop_append: the deque after the call and the returned element
pop_append(d, maxlen, x) ==
    IF deque_full(d, maxlen)
    THEN [deque |-> Append(Tail(d), x), popped_element |-> Head(d)]
    ELSE [deque |-> Append(d, x),       popped_element |-> None]

\* mutant of increment_append: the last index is appended again
increment_append_same(d, maxlen) ==
    IF Len(d) = 0
    THEN pop_append(d, maxlen, 0)
    ELSE pop_append(d, maxlen, Last(d))

increment_append(d, maxlen) ==
    IF Len(d) = 0
    THEN pop_append(d, maxlen, 0)
    ELSE pop_append(d, maxlen, Last(d) + 1)

\* ----------------------------------------------------------- FrameQueue
FrameQueue0 ==
    [ max_len |-> None, max_frames |-> None, _max_frames |-> None,
      frames |-> <<>>, inds |-> <<>>, i |-> None,
      source |-> FALSE, source_len |-> 0, source_pos |-> 0,
      source_frame_count |-> None, grabbed_frame |-> FALSE,
      \* bookkeeping, not fields of the class: pushes since reset_queue, the
      \* index given to the latest pushed frame, a push found inds emptied
      npush |-> 0, assigned |-> None, restarted |-> FALSE ]

has_max_frames(q) == q.max_frames # None /\ q.max_frames # Inf

\* every caller passes both arguments, so max_len and max_frames are not None
reset_queue(q, max_len, max_frames) ==
    LET q1 == [q EXCEPT !.max_len = max_len, !.max_frames = max_frames]
    IN  [q1 EXCEPT !._max_frames = IF has_max_frames(q1) THEN q1.max_frames ELSE @,
                   !.frames = <<>>, !.inds = <<>>, !.i = None,
                   !.npush = 0, !.assigned = None, !.restarted = FALSE]

\* source: a cv2.VideoCapture freshly opened on a video of n frames
set_frame_source(q, n) ==
    [q EXCEPT !.source = TRUE, !.source_len = n, !.source_pos = 0,
              !.source_frame_count = n,
              !._max_frames =
                  IF n > 0 /\ ~has_max_frames(q) THEN n
                  ELSE IF has_max_frames(q) /\ n < q.max_frames THEN n
                  ELSE @]

_append_frame(q, frame, pop_ind) ==
    LET pf == pop_append(q.frames, q.max_len, frame)
        pi == increment_append(q.inds, q.max_len)
        q1 == IF frame # None
              THEN [q EXCEPT !.frames = pf.deque, !.inds = pi.deque,
                             !.i = pi.popped_element,
                             !.npush = @ + 1, !.assigned = Last(pi.deque),
                             !.restarted = @ \/ (q.npush > 0 /\ Len(q.inds) = 0)]
              ELSE q
        popped_frame == IF frame # None THEN pf.popped_element ELSE None
        dopop == pop_ind /\ q1.i = None
    IN  IF dopop /\ Len(q1.inds) = 0
        THEN [q |-> q1, i |-> None, popped_frame |-> popped_frame,
              break_flag |-> FALSE, exc |-> "IndexError"]
        ELSE LET q2 == IF dopop
                       THEN [q1 EXCEPT !.i = Head(q1.inds), !.inds = Tail(q1.inds)]
                       ELSE q1
             IN  [q |-> q2, i |-> q2.i, popped_frame |-> popped_frame,
                  break_flag |-> (pop_ind /\ q2.i # None /\ q2.max_frames # None
                                  /\ q2.i >= q2.max_frames),
                  exc |-> ""]

\* read_frame: from the VideoCapture when there is one, else the array argument
read_frame(q, pop_ind, array) ==
    IF q.source
    THEN IF q.source_pos < q.source_len
         THEN _append_frame([q EXCEPT !.grabbed_frame = TRUE,
                                      !.source_pos = @ + 1],
                            q.source_pos, pop_ind)
         ELSE _append_frame([q EXCEPT !.grabbed_frame = FALSE], None, pop_ind)
    ELSE _append_frame(q, array, pop_ind)

frames_to_process(q) == Len(q.frames) > 0 \/ q.grabbed_frame

\* -------------------------------------------------------------- VidStab
\* _gen_next_raw_transform: motion from prev_gray's frame to frames[-1];
\* _update_prev_frame then makes frames[-1] the previous frame
\* mutant of _update_trajectory: the new row is not added to the last one
_update_trajectory_no_sum(traj, transform) ==
    Append(traj, transform)

\* mutant of _update_trajectory: the column number is added, not the value
_update_trajectory_enumerate(traj, transform) ==
    IF Len(traj) = 0
    THEN Append(traj, transform)
    ELSE Append(traj, [j \in DOMAIN transform |-> Last(traj)[j] + (j - 1)])

\* _update_trajectory: the running componentwise sum
_update_trajectory(traj, transform) ==
    IF Len(traj) = 0
    THEN Append(traj, transform)
    ELSE Append(traj, [j \in DOMAIN transform |-> Last(traj)[j] + transform[j]])

\* the list operations of _gen_next_raw_transform on a row just estimated
append_transform(raw, traj, transform_i) ==
    [ raw |-> Append(raw, transform_i), traj |-> _update_trajectory(traj, transform_i) ]

_gen_next_raw_transform(q, raw, traj, prev) ==
    [ raw  |-> append_transform(raw, traj, <<prev, Last(q.frames)>>).raw,
      traj |-> append_transform(raw, traj, <<prev, Last(q.frames)>>).traj,
      prev |-> Last(q.frames) ]

\* mutant of _init_is_complete: compares with max_ind instead of max_ind - 1
_init_is_complete_late(q, gen_all) ==
    IF gen_all THEN FALSE
    ELSE Last(q.inds) >= Min(q.max_frames, q.max_len)

\* mutant of _init_is_complete: gen_all is ignored
_init_is_complete_ignores_gen_all(q, gen_all) ==
    Last(q.inds) >= Min(q.max_frames, q.max_len) - 1

\* mutant of _init_is_complete: max_frames is ignored
_init_is_complete_window_only(q, gen_all) ==
    IF gen_all THEN FALSE
    ELSE Last(q.inds) >= q.max_len - 1

_init_is_complete(q, gen_all) ==
    IF gen_all THEN FALSE
    ELSE Last(q.inds) >= Min(q.max_frames, q.max_len) - 1

RECURSIVE Factorial(_)
Factorial(n) == IF n <= 1 THEN 1 ELSE n * Factorial(n - 1)

RECURSIVE SumRows(_, _, _, _)
SumRows(arr, lo, hi, j) ==
    IF lo > hi THEN 0 ELSE arr[lo][j] + SumRows(arr, lo + 1, hi, j)

\* mutant of bfill_rolling_mean: the window also takes the n rows after row i
bfill_rolling_mean_ahead(arr, n) ==
    [i \in 1..Len(arr) |->
        [j \in DOMAIN arr[i] |->
            SumRows(arr, Max(1, i - n + 1), Min(Len(arr), i + n), j)
                * (Factorial(n) \div n)]]

\* bfill_rolling_mean(arr, n): row i is the mean of rows max(0, i-n+1)..i,
\* kept as an integer by the factor Factorial(n)
bfill_rolling_mean(arr, n) ==
    [i \in 1..Len(arr) |->
        [j \in DOMAIN arr[i] |->
            SumRows(arr, Max(1, i - n + 1), i, j)
                * (Factorial(n) \div (i - Max(1, i - n + 1) + 1))]]

\* raw + (smoothed - trajectory), times Factorial(n)
residual(raw, smoothed, traj, n) ==
    [i \in 1..Len(raw) |->
        [j \in DOMAIN raw[i] |->
            Factorial(n) * raw[i][j] + (smoothed[i][j] - Factorial(n) * traj[i][j])]]

Prefix(arr, k) == SubSeq(arr, 1, Min(Len(arr), k))

\* mutant of _gen_transforms: the first n rows are kept instead of n - 1
_gen_transforms_keep_n(q, raw, traj) ==
    LET n == q._max_frames
        k == IF n # None /\ n # 0 THEN n ELSE Len(raw)
    IN  [trajectory |-> Prefix(traj, k),
         smoothed_trajectory |-> Prefix(bfill_rolling_mean(traj, window), k),
         transforms |-> Prefix(raw, k),
         values |-> Prefix(residual(raw, bfill_rolling_mean(traj, window), traj,
                                    window), k),
         exc |-> ""]

\* mutant of _gen_transforms: self.trajectory is left whole
_gen_transforms_whole_trajectory(q, raw, traj) ==
    LET n == q._max_frames
        k == IF n # None /\ n # 0 THEN n - 1 ELSE Len(raw)
    IN  [trajectory |-> traj,
         smoothed_trajectory |-> Prefix(bfill_rolling_mean(traj, window), k),
         transforms |-> Prefix(raw, k),
         values |-> Prefix(residual(raw, bfill_rolling_mean(traj, window), traj,
                                    window), k),
         exc |-> ""]

\* _gen_transforms: the three arrays, one row per raw row, then their first
\* n - 1 rows when n = frame_queue._max_frames is truthy.  With no raw row the
\* arrays are 1-D and the 2-D slice [:n - 1, :] raises IndexError.
\* transforms names each row by its raw row; values holds what the row is.
_gen_transforms(q, raw, traj) ==
    LET n == q._max_frames
        truthy == n # None /\ n # 0
        k == IF truthy THEN n - 1 ELSE Len(raw)
    IN  IF truthy /\ Len(raw) = 0
        THEN [trajectory |-> <<>>, smoothed_trajectory |-> <<>>,
              transforms |-> <<>>, values |-> <<>>, exc |-> "IndexError"]
        ELSE [trajectory |-> Prefix(traj, k),
              smoothed_trajectory |-> Prefix(bfill_rolling_mean(traj, window), k),
              transforms |-> Prefix(raw, k),
              values |-> Prefix(residual(raw, bfill_rolling_mean(traj, window),
                                         traj, window), k),
              exc |-> ""]

\* what a caller that uses the stored transforms has in hand
stored_transforms ==
    [trajectory |-> trajectory, smoothed_trajectory |-> smoothed_trajectory,
     transforms |-> transforms, exc |-> ""]

\* _apply_next_transform(i, frame_i, use_stored_transforms), given the
\* transforms in force (already recomputed by the caller's _gen_transforms
\* when use_stored_transforms is False).  out: <<frame, row index>> or None.
NoOut == <<None, None>>

\* the border types transform_frame accepts
BorderTypes == {"black", "reflect", "replicate"}

\* mutant of _apply_next_transform: the row one past the end is accepted
_apply_next_transform_past_end(q, tr, i, frame_i, border_type) ==
    LET i1 == IF i = None THEN Head(q.inds) ELSE i
        f  == IF frame_i = None THEN Head(q.frames) ELSE frame_i
    IN  [q |-> [q EXCEPT !.inds = IF i = None THEN Tail(@) ELSE @,
                         !.frames = IF frame_i = None THEN Tail(@) ELSE @],
         out |-> IF i1 > Len(tr) THEN NoOut ELSE <<f, i1>>, exc |-> ""]

\* mutant of _apply_next_transform: the oldest frame is read and left in
\* the buffer
_apply_next_transform_keeps_frame(q, tr, i, frame_i, border_type) ==
    IF (i = None /\ Len(q.inds) = 0) \/ (frame_i = None /\ Len(q.frames) = 0)
    THEN [q |-> q, out |-> NoOut, exc |-> "IndexError"]
    ELSE
    LET q1 == IF i = None THEN [q EXCEPT !.inds = Tail(q.inds)] ELSE q
        i1 == IF i = None THEN Head(q.inds) ELSE i
        f  == IF frame_i = None THEN Head(q.frames) ELSE frame_i
    IN  IF tr = NoTransforms
        THEN [q |-> q1, out |-> NoOut, exc |-> "TypeError"]
        ELSE IF i1 >= Len(tr)
        THEN [q |-> q1, out |-> NoOut, exc |-> ""]
        ELSE IF border_type \notin BorderTypes
        THEN [q |-> q1, out |-> NoOut, exc |-> "ValueError"]
        ELSE [q |-> q1, out |-> <<f, i1>>, exc |-> ""]

_apply_next_transform(q, tr, i, frame_i, border_type) ==
    IF i = None /\ Len(q.inds) = 0
    THEN [q |-> q, out |-> NoOut, exc |-> "IndexError"]
    ELSE
    LET q1 == IF i = None THEN [q EXCEPT !.inds = Tail(q.inds)] ELSE q
        i1 == IF i = None THEN Head(q.inds) ELSE i
    IN  IF frame_i = None /\ Len(q1.frames) = 0
        THEN [q |-> q1, out |-> NoOut, exc |-> "IndexError"]
        ELSE
        LET q2 == IF frame_i = None THEN [q1 EXCEPT !.frames = Tail(q1.frames)] ELSE q1
            f  == IF frame_i = None THEN Head(q1.frames) ELSE frame_i
        IN  IF tr = NoTransforms
            THEN [q |-> q2, out |-> NoOut, exc |-> "TypeError"]
            ELSE IF i1 >= Len(tr)
            THEN [q |-> q2, out |-> NoOut, exc |-> ""]
            ELSE IF border_type \notin BorderTypes
            THEN \* transform_frame: 'Invalid border type'
                 [q |-> q2, out |-> NoOut, exc |-> "ValueError"]
            ELSE [q |-> q2, out |-> <<f, i1>>, exc |-> ""]

Ret(kind, frame, row) == [kind |-> kind, frame |-> frame, row |-> row]

NoCall == [ kind |-> "none", n |-> 0, max_frames |-> None, stored_arg |-> FALSE,
            use_stored_transforms |-> FALSE, auto |-> FALSE, playback |-> FALSE,
            border_type |-> "None", layer_func |-> FALSE,
            gen_all |-> FALSE, after |-> "idle", k |-> 0, fresh |-> FALSE,
            aborted |-> FALSE, halted |-> FALSE ]

\* _set_border_options(border_size, border_type); from: the transforms an
\* automatic border size was derived from
BorderOptions(border_type, auto, from) ==
    [border_type |-> border_type, auto |-> auto, from |-> from]

\* self._processing_resize_kwargs: {} | None | {'height' or 'width': n}
EmptyKwargs == [name |-> "{}", value |-> 0]
NoKwargs    == [name |-> "None", value |-> 0]

\* no frame has been processed yet (cur is bookkeeping: the frame handled
\* last, its gray image as it was processed, what the tracking gave)
NoCur == [shape |-> <<>>, resized |-> <<>>, motion |-> <<0, 0, 0>>,
          status |-> "None", estimable |-> FALSE]

\* the estimator's fields as __init__(processing_max_dim=...) leaves them;
\* prev_gray is the shape of the stored gray image
Estimator0(processing_max_dim) ==
    [processing_max_dim |-> processing_max_dim,
     _processing_resize_kwargs |-> EmptyKwargs,
     prev_gray |-> <<>>,
     _raw_transforms |-> <<>>,
     _trajectory |-> <<>>,
     cur |-> NoCur]

\* no call has worked out a frame shape or a border size yet
NoBorders == [kind |-> "none"]

\* no Frame has been constructed yet
\* (arg is bookkeeping: the color_format argument of the construction)
NoFrameObject ==
    [image |-> <<>>, arg |-> "None", color_format |-> "None", raised |-> "None"]

\* layer_options['prev_frame'] is None: frames are pairs here, so is this
NoFrame == <<>>

\* self.layer_options as __init__ leaves it; background is bookkeeping, not
\* a key of the dict: what the latest output was layered over
LayerOptions0 ==
    [layer_func |-> FALSE, prev_frame |-> NoFrame, background |-> NoFrame]

\* layer_utils.apply_layer_func(cur_frame, prev_frame, layer_func): the
\* background handed to layer_func; the first output passes through
apply_layer_func(cur_frame, prev_frame, layer_func) ==
    IF prev_frame = NoFrame THEN NoFrame ELSE prev_frame

\* post_process_transformed_frame(transformed_frame, border_options,
\* layer_options): the layer part; a frame is named <<run, index>>
post_process_transformed_frame(transformed_frame, lo) ==
    IF lo.layer_func
    THEN [lo EXCEPT !.background = apply_layer_func(transformed_frame,
                                                    lo.prev_frame, TRUE),
                    !.prev_frame = transformed_frame]
    ELSE [lo EXCEPT !.background = NoFrame]

Init ==
    /\ window \in 1..MaxWindow
    /\ frame_queue = FrameQueue0
    /\ _raw_transforms = <<>>
    /\ prev_gray = None
    /\ _trajectory = <<>>
    /\ trajectory = NoTransforms
    /\ smoothed_trajectory = NoTransforms
    /\ transforms = NoTransforms
    /\ border_options = BorderOptions("None", FALSE, <<>>)
    /\ layer_options = LayerOptions0
    /\ new_frame = NoFrameObject
    /\ estimator = Estimator0(Inf)
    /\ borders = NoBorders
    /\ ngen = 0
    /\ writer = "None"
    /\ auto_border_flag = FALSE
    /\ _default_stabilize_frame_output = "None"
    /\ pc = "idle"
    /\ call = NoCall
    /\ written = <<>>
    /\ ret = Ret("none", None, None)
    /\ hist = [runs |-> 0, fed |-> 0, phase |-> "fresh", tick |-> 0,
              limit |-> MaxRuns, stored |-> FALSE]

\* An object serves either a streaming session (stabilize_frame calls) or
\* batch calls (stabilize, gen_transforms): hist.phase is "fresh" until the
\* first stabilize_frame call, hist.runs counts the batch calls.
\* The session so far: only stabilize_frame calls on a fresh object, all with
\* use_stored_transforms=False and a valid border_type, non-None inputs first
\* ("feeding"), then only None inputs ("draining"); anything else is "other"
NextPhase(input_frame, use_stored_transforms, border_type) ==
    IF use_stored_transforms \/ hist.phase = "other"
       \/ border_type \notin BorderTypes
    THEN "other"
    ELSE IF input_frame # None
         THEN (IF hist.phase \in {"fresh", "feeding"} THEN "feeding" ELSE "other")
         ELSE (IF hist.phase \in {"feeding", "draining"} THEN "draining" ELSE "other")

\* mutant of no_frames_left: the empty buffer is not noticed
no_frames_left_unnoticed(q) == FALSE

\* stabilize_frame: len(self.frame_queue.frames) == 0
no_frames_left(q) == Len(q.frames) = 0

\* stabilize_frame(input_frame, smoothing_window=window, border_type,
\*                 use_stored_transforms)
\* an array is consumed (and numbered) only when there is no VideoCapture
stabilize_frame(input_frame, use_stored_transforms, border_type, layer_func, tick) ==
    /\ pc = "idle"
    /\ hist.runs = 0
    /\ hist' = [hist EXCEPT !.fed = IF input_frame # None /\ ~frame_queue.source
                                    THEN @ + 1 ELSE @,
                            !.phase = NextPhase(input_frame, use_stored_transforms,
                                                border_type),
                            !.tick = IF tick THEN 1 - @ ELSE @,
                            !.stored = use_stored_transforms]
    /\ border_options' = BorderOptions(border_type, FALSE, <<>>)
    /\ UNCHANGED << aside, window, writer, auto_border_flag, pc, call, written >>
    /\ IF frame_queue.max_len = None
       THEN \* Store first frame
            \E r \in {read_frame(reset_queue(frame_queue, window + 1, Inf),
                                  FALSE, input_frame)} :
                /\ frame_queue' = r.q
                /\ UNCHANGED << _raw_transforms, _trajectory, trajectory,
                                smoothed_trajectory, transforms, ngen >>
                /\ IF input_frame = None /\ Len(r.q.frames) = 0
                   THEN /\ ret' = Ret("ValueError", None, None)
                        /\ UNCHANGED << prev_gray, _default_stabilize_frame_output >>
                   ELSE /\ prev_gray' = Last(r.q.frames)
                        /\ _default_stabilize_frame_output' = "black"
                        /\ ret' = Ret("black", None, None)
       ELSE IF no_frames_left(frame_queue)
       THEN /\ ret' = Ret("None", None, None)
            /\ UNCHANGED << frame_queue, _raw_transforms, prev_gray, _trajectory,
                            trajectory, smoothed_trajectory, transforms, ngen,
                            _default_stabilize_frame_output >>
       ELSE
       \E r \in {IF input_frame # None
                 THEN read_frame(frame_queue, FALSE, input_frame)
                 ELSE [q |-> frame_queue, popped_frame |-> None]} :
       \E g \in {IF input_frame # None /\ ~use_stored_transforms
                 THEN _gen_next_raw_transform(r.q, _raw_transforms, _trajectory,
                                              prev_gray)
                 ELSE [raw |-> _raw_transforms, traj |-> _trajectory,
                       prev |-> prev_gray]} :
           /\ _raw_transforms' = g.raw
           /\ _trajectory' = g.traj
           /\ prev_gray' = g.prev
           /\ UNCHANGED _default_stabilize_frame_output
           /\ IF Len(r.q.inds) = 0
              THEN /\ ret' = Ret("IndexError", None, None)
                   /\ frame_queue' = r.q
                   /\ UNCHANGED << trajectory, smoothed_trajectory, transforms, ngen >>
              ELSE IF ~_init_is_complete(r.q, FALSE)
              THEN /\ ret' = Ret(_default_stabilize_frame_output, None, None)
                   /\ frame_queue' = r.q
                   /\ UNCHANGED << trajectory, smoothed_trajectory, transforms, ngen >>
              ELSE
              \E t \in {IF use_stored_transforms
                        THEN stored_transforms
                        ELSE _gen_transforms(r.q, g.raw, g.traj)} :
                  /\ trajectory' = t.trajectory
                  /\ smoothed_trajectory' = t.smoothed_trajectory
                  /\ transforms' = t.transforms
                  /\ ngen' = IF use_stored_transforms THEN ngen ELSE ngen + 1
                  /\ IF t.exc # ""
                     THEN /\ ret' = Ret(t.exc, None, None)
                          /\ frame_queue' = r.q
                     ELSE
                     \E a \in {_apply_next_transform(r.q, t.transforms, r.q.i,
                                                     r.popped_frame, border_type)} :
                         /\ frame_queue' = a.q
                         /\ ret' = IF a.exc # "" THEN Ret(a.exc, None, None)
                                   ELSE IF a.out = NoOut THEN Ret("None", None, None)
                                   ELSE Ret("frame", a.out[1], a.out[2])
    /\ \E lo \in {[layer_options EXCEPT !.layer_func = layer_func]} :
          layer_options' = IF ret'.kind = "frame"
                           THEN post_process_transformed_frame(
                                    <<hist.runs, ret'.frame>>, lo)
                           ELSE lo

\* the border_type arguments tried: a valid one and an invalid one
BorderTypeArgs == {"black", "sepia"}

\* the caller hands over its next array (numbered by order) or None
StabilizeFrame ==
    \E use_stored_transforms \in BOOLEAN, border_type \in BorderTypeArgs,
       layer_func \in {FALSE} :
        \/ /\ hist.fed < MaxFeed
           /\ stabilize_frame(hist.fed, use_stored_transforms, border_type,
                              layer_func, FALSE)
        \/ stabilize_frame(None, use_stored_transforms, border_type,
                           layer_func, FALSE)

\* ------------------------------------------------ batch calls, by steps
\* the fields a step of a batch call may change
Cur == [ q |-> frame_queue, raw |-> _raw_transforms, prev |-> prev_gray,
         traj |-> _trajectory, trajectory |-> trajectory,
         smoothed |-> smoothed_trajectory, tr |-> transforms,
         border |-> border_options, layer |-> layer_options,
         ngen |-> ngen,
         writer |-> writer, written |-> written,
         pc |-> pc, ret |-> ret, call |-> call ]

Commit(s) ==
    /\ frame_queue' = s.q
    /\ _raw_transforms' = s.raw
    /\ prev_gray' = s.prev
    /\ _trajectory' = s.traj
    /\ trajectory' = s.trajectory
    /\ smoothed_trajectory' = s.smoothed
    /\ transforms' = s.tr
    /\ border_options' = s.border
    /\ layer_options' = s.layer
    /\ ngen' = s.ngen
    /\ writer' = s.writer
    /\ written' = s.written
    /\ pc' = s.pc
    /\ ret' = s.ret
    /\ call' = s.call

\* an exception propagates to the caller of the entry point
Raise(s, e) == [s EXCEPT !.pc = "idle", !.ret = Ret(e, None, None)]

\* the assignments of _gen_transforms
recomputed(s, t) ==
    [s EXCEPT !.trajectory = t.trajectory, !.smoothed = t.smoothed_trajectory,
              !.tr = t.transforms, !.ngen = @ + 1]

\* _process_first_frame() on the source, then _init_trajectory's loop
_process_first_frame(s) ==
    LET r == read_frame(s.q, FALSE, None)
    IN  IF Len(r.q.frames) = 0
        THEN Raise([s EXCEPT !.q = r.q], "ValueError")
        ELSE [s EXCEPT !.q = r.q, !.prev = Last(r.q.frames), !.pc = "init"]

\* mutant of enter_apply: the border never comes from the transforms
enter_apply_fixed_border(s, flag) ==
    IF flag /\ Len(s.q.frames) = 0
    THEN [s EXCEPT !.pc = "idle", !.ret = Ret("IndexError", None, None)]
    ELSE [s EXCEPT !.pc = "apply",
                   !.border = BorderOptions(s.call.border_type, FALSE, <<>>),
                   !.layer.layer_func = s.call.layer_func]

\* stabilize, from "if self.auto_border_flag:" to the start of the loop of
\* _apply_transforms: frames[0] is read when the flag is set, and the border
\* size comes from self.transforms; then _set_border_options
enter_apply(s, flag) ==
    IF flag /\ Len(s.q.frames) = 0
    THEN Raise(s, "IndexError")
    ELSE [s EXCEPT !.pc = "apply",
                   !.border = BorderOptions(s.call.border_type, flag,
                                            IF flag THEN s.tr ELSE <<>>),
                   !.layer.layer_func = s.call.layer_func]

\* the end of _apply_transforms: self.writer.release(); self.writer = None
release_writer(s) ==
    IF s.writer = "None"
    THEN Raise(s, "AttributeError")
    ELSE [s EXCEPT !.writer = "None", !.pc = "idle", !.ret = Ret("ok", None, None)]

NewCall(kind, n, max_frames, stored, auto, playback, border_type, layer_func) ==
    [ kind |-> kind, n |-> n, max_frames |-> max_frames, stored_arg |-> stored,
      use_stored_transforms |-> stored, auto |-> auto, playback |-> playback,
      border_type |-> border_type, layer_func |-> layer_func,
      gen_all |-> FALSE, after |-> "apply", k |-> 0,
      fresh |-> (hist.runs = 0), aborted |-> FALSE, halted |-> FALSE ]

Running == Ret("running", None, None)

\* stabilize(input_path, output_path, smoothing_window=window, max_frames,
\*           border_type, border_size = 'auto' or a number, playback,
\*           use_stored_transforms)
\* on an existing video of n frames, up to the first loop it enters
stabilize(n, max_frames, stored, auto, playback, border_type, layer_func) ==
    /\ pc = "idle"
    /\ hist.phase = "fresh"
    /\ hist.runs < hist.limit
    /\ hist' = [hist EXCEPT !.runs = @ + 1]
    /\ auto_border_flag' = (auto \/ auto_border_flag)
    /\ UNCHANGED << aside, window, _default_stabilize_frame_output >>
    /\ \E c \in {NewCall("stabilize", n, max_frames, stored, auto, playback,
                         border_type, layer_func)},
          q2 \in {reset_queue(set_frame_source(frame_queue, n), window + 1,
                              max_frames)} :
       \E s \in {[Cur EXCEPT !.writer = "None", !.written = <<>>, !.ret = Running,
                             !.q = q2, !.call = c]} :
           IF auto_border_flag' /\ ~stored
           THEN \* gen_transforms(input_path, smoothing_window) comes first
                \E s1 \in {_process_first_frame(
                        [s EXCEPT !.q = reset_queue(set_frame_source(q2, n),
                                                    window + 1, Inf),
                                  !.call = [c EXCEPT !.use_stored_transforms = TRUE,
                                                     !.gen_all = TRUE,
                                                     !.after = "auto"]])} :
                    Commit(s1)
           ELSE IF ~stored
           THEN \E s1 \in {_process_first_frame(s)} : Commit(s1)
           ELSE Commit([s EXCEPT !.pc = "populate"])

\* stabilize on a path that does not exist (and is not a camera number)
stabilize_missing(auto) ==
    /\ pc = "idle"
    /\ hist.phase = "fresh"
    /\ hist.runs < hist.limit
    /\ hist' = [hist EXCEPT !.runs = @ + 1]
    /\ auto_border_flag' = (auto \/ auto_border_flag)
    /\ UNCHANGED << aside, window, _default_stabilize_frame_output >>
    /\ \E s \in {Raise([Cur EXCEPT !.writer = "None", !.written = <<>>,
                                     !.call = NewCall("stabilize", 0, None, FALSE,
                                                      auto, FALSE, "black", FALSE)],
                         "FileNotFoundError")} :
           Commit(s)

\* gen_transforms(input_path, smoothing_window=window) on a video of n frames
gen_transforms(n) ==
    /\ pc = "idle"
    /\ hist.phase = "fresh"
    /\ hist.runs < hist.limit
    /\ hist' = [hist EXCEPT !.runs = @ + 1]
    /\ UNCHANGED << aside, window, auto_border_flag, _default_stabilize_frame_output >>
    /\ \E c \in {[NewCall("gen_transforms", n, Inf, FALSE, FALSE, FALSE, "None",
                            FALSE)
                    EXCEPT !.gen_all = TRUE, !.after = "idle"]},
          q \in {reset_queue(set_frame_source(frame_queue, n), window + 1, Inf)} :
       \E s \in {_process_first_frame([Cur EXCEPT !.q = q, !.call = c,
                                                   !.ret = Running])} :
           Commit(s)

\* one iteration of the loop of _init_trajectory; on leaving the loop,
\* _gen_transforms() and whatever the caller does up to its next loop
_init_trajectory ==
    /\ pc = "init"
    /\ UNCHANGED << aside, window, auto_border_flag, _default_stabilize_frame_output, hist >>
    /\ \E r \in {read_frame(frame_queue, FALSE, None)} :
       \E g \in {IF r.q.grabbed_frame
                 THEN _gen_next_raw_transform(r.q, _raw_transforms, _trajectory,
                                              prev_gray)
                 ELSE [raw |-> _raw_transforms, traj |-> _trajectory,
                       prev |-> prev_gray]} :
       \E s \in {[Cur EXCEPT !.q = r.q, !.raw = g.raw, !.traj = g.traj,
                             !.prev = g.prev]} :
           IF r.q.grabbed_frame /\ ~_init_is_complete(r.q, call.gen_all)
           THEN Commit(s)
           ELSE \E t \in {_gen_transforms(r.q, g.raw, g.traj)} :
                \E s1 \in {recomputed(s, t)} :
                \E s2 \in {IF t.exc # "" THEN Raise(s1, t.exc)
                           ELSE IF call.after = "idle"
                           THEN [s1 EXCEPT !.pc = "idle",
                                           !.ret = Ret("ok", None, None)]
                           ELSE IF call.after = "auto"
                           THEN [s1 EXCEPT
                                   !.q = reset_queue(set_frame_source(r.q, call.n),
                                                     window + 1, call.max_frames),
                                   !.pc = "populate"]
                           ELSE enter_apply(s1, auto_border_flag)} :
                    Commit(s2)

\* one iteration of the loop of populate_queue(smoothing_window)
populate_queue ==
    /\ pc = "populate"
    /\ UNCHANGED << aside, window, auto_border_flag, _default_stabilize_frame_output, hist >>
    /\ \E n \in {Min(window, frame_queue.max_frames)},
          r \in {read_frame(frame_queue, FALSE, None)} :
       \E s \in {[Cur EXCEPT !.q = r.q, !.call.k = @ + 1]} :
       \E s1 \in {IF r.q.grabbed_frame /\ call.k + 1 < n
                  THEN s
                  ELSE enter_apply(s, auto_border_flag)} :
           Commit(s1)

\* one iteration of the loop of _apply_transforms; abort: the user pressed
\* q or ESC in the playback window
_apply_transforms ==
    /\ pc = "apply"
    /\ UNCHANGED << aside, window, auto_border_flag, _default_stabilize_frame_output, hist >>
    /\ \E r \in {read_frame(frame_queue, TRUE, None)} :
       \E s0 \in {[Cur EXCEPT !.q = r.q]} :
           IF r.exc # ""
           THEN \E s \in {Raise(s0, r.exc)} : Commit(s)
           ELSE IF ~frames_to_process(r.q) \/ r.break_flag
           THEN \E s \in {release_writer(s0)} : Commit(s)
           ELSE
           \E g \in {IF ~call.use_stored_transforms
                     THEN _gen_next_raw_transform(r.q, _raw_transforms, _trajectory,
                                                  prev_gray)
                     ELSE [raw |-> _raw_transforms, traj |-> _trajectory,
                           prev |-> prev_gray]} :
           \E t \in {IF ~call.use_stored_transforms
                     THEN _gen_transforms(r.q, g.raw, g.traj)
                     ELSE stored_transforms} :
           \E s1 \in {IF ~call.use_stored_transforms
                      THEN recomputed([s0 EXCEPT !.raw = g.raw, !.traj = g.traj,
                                                 !.prev = g.prev], t)
                      ELSE s0} :
               IF t.exc # ""
               THEN \E s \in {Raise(s1, t.exc)} : Commit(s)
               ELSE
               \E a \in {_apply_next_transform(r.q, t.transforms, r.i,
                                               r.popped_frame,
                                               border_options.border_type)} :
               \E s2 \in {[s1 EXCEPT !.q = a.q]} :
                   IF a.exc # ""
                   THEN \E s \in {Raise(s2, a.exc)} : Commit(s)
                   ELSE IF a.out = NoOut
                   THEN \E s \in {release_writer([s2 EXCEPT !.call.halted = TRUE])} :
                            Commit(s)
                   ELSE \E abort \in (IF call.playback THEN BOOLEAN ELSE {FALSE}) :
                        \E s3 \in {[s2 EXCEPT !.layer =
                                      post_process_transformed_frame(
                                          <<hist.runs, a.out[1]>>, @)]} :
                        \E s \in {IF abort
                                  THEN release_writer([s3 EXCEPT !.call.aborted = TRUE])
                                  ELSE [s3 EXCEPT !.writer = "open",
                                                  !.written = Append(@, a.out)]} :
                            Commit(s)

MaxFramesArgs == (1..MaxCap) \cup {Inf}

Stabilize ==
    \E n \in 0..MaxFrames, max_frames \in MaxFramesArgs,
       stored \in BOOLEAN, auto \in BOOLEAN, playback \in BOOLEAN,
       border_type \in BorderTypeArgs, layer_func \in {FALSE} :
        stabilize(n, max_frames, stored, auto, playback, border_type, layer_func)

StabilizeMissing == \E auto \in BOOLEAN : stabilize_missing(auto)

GenTransforms == \E n \in 0..MaxFrames : gen_transforms(n)

Next ==
    \/ StabilizeFrame
    \/ Stabilize
    \/ StabilizeMissing
    \/ GenTransforms
    \/ _init_trajectory
    \/ populate_queue
    \/ _apply_transforms

Spec == Init /\ [][Next]_vars

\* ------------------------------------------ batch calls on a used object
\* One object, one batch call after the other (one more than under Spec):
\* gen_transforms, or stabilize that estimates its own transforms, shown
\* without playback and with a valid border type.
InitReuse ==
    \E n \in {MaxRuns + 1} :
        /\ window \in 1..MaxWindow
        /\ frame_queue = FrameQueue0
        /\ _raw_transforms = <<>>
        /\ prev_gray = None
        /\ _trajectory = <<>>
        /\ trajectory = NoTransforms
        /\ smoothed_trajectory = NoTransforms
        /\ transforms = NoTransforms
        /\ border_options = BorderOptions("None", FALSE, <<>>)
        /\ layer_options = LayerOptions0
        /\ new_frame = NoFrameObject
        /\ estimator = Estimator0(Inf)
        /\ borders = NoBorders
        /\ ngen = 0
        /\ writer = "None"
        /\ auto_border_flag = FALSE
        /\ _default_stabilize_frame_output = "None"
        /\ pc = "idle"
        /\ call = NoCall
        /\ written = <<>>
        /\ ret = Ret("none", None, None)
        /\ hist = [runs |-> 0, fed |-> 0, phase |-> "fresh", tick |-> 0,
                   limit |-> n, stored |-> FALSE]

ReuseStabilize ==
    \E n \in 0..MaxFrames, max_frames \in MaxFramesArgs, auto \in BOOLEAN,
       layer_func \in BOOLEAN :
        stabilize(n, max_frames, FALSE, auto, FALSE, "black", layer_func)

ReuseNext ==
    \/ ReuseStabilize
    \/ GenTransforms
    \/ _init_trajectory
    \/ populate_queue
    \/ _apply_transforms

SpecReuse == InitReuse /\ [][ReuseNext]_vars

\* ------------------------------------------ a stabilize call that runs on
\* One stabilize call on a fresh object; the interpreter goes on to the next
\* iteration of whichever loop the call is in, which is what the weak
\* fairness of the three loop steps says.
FirstStabilize ==
    /\ hist.runs = 0
    /\ Stabilize

BatchNext ==
    \/ FirstStabilize
    \/ _init_trajectory
    \/ populate_queue
    \/ _apply_transforms

LiveBatchSpec ==
    /\ Init
    /\ [][BatchNext]_vars
    /\ WF_vars(_init_trajectory)
    /\ WF_vars(populate_queue)
    /\ WF_vars(_apply_transforms)

\* ------------------------------------------ a streaming caller that ends
\* The caller of the docstring's loop: arrays first, then None on every
\* call, for as long as stabilize_frame does not return None.
LiveFeed ==
    /\ hist.phase \in {"fresh", "feeding"}
    /\ hist.fed < MaxFeed
    /\ \E border_type \in BorderTypes :
          stabilize_frame(hist.fed, FALSE, border_type, FALSE, TRUE)

LiveDrain ==
    /\ hist.fed >= 1
    /\ \E border_type \in BorderTypes :
          stabilize_frame(None, FALSE, border_type, FALSE, TRUE)

LiveNext == LiveFeed \/ LiveDrain

LiveSpec == Init /\ [][LiveNext]_vars /\ WF_vars(LiveDrain)

\* --------------------------------------------- the FrameQueue on its own
\* any sequence of reset_queue / read_frame calls, with the pops that
\* _apply_next_transform performs on inds and frames in between
OnlyQueue ==
    UNCHANGED << aside, window, _raw_transforms, prev_gray, _trajectory, trajectory,
                 smoothed_trajectory, transforms, border_options, layer_options,
                 ngen, writer,
                 auto_border_flag, _default_stabilize_frame_output, pc, call,
                 written, ret, hist >>

QueueReset ==
    /\ frame_queue' = reset_queue(frame_queue, window + 1, Inf)
    /\ OnlyQueue

QueueRead ==
    /\ frame_queue.max_len # None
    /\ \E pop_ind \in BOOLEAN, fresh_array \in BOOLEAN :
          /\ fresh_array => frame_queue.npush < MaxFeed
          /\ frame_queue' =
                read_frame(frame_queue, pop_ind,
                           IF fresh_array THEN frame_queue.npush ELSE None).q
    /\ OnlyQueue

QueuePop ==
    /\ \/ /\ Len(frame_queue.inds) > 0
          /\ frame_queue' = [frame_queue EXCEPT !.inds = Tail(@)]
       \/ /\ Len(frame_queue.frames) > 0
          /\ frame_queue' = [frame_queue EXCEPT !.frames = Tail(@)]
    /\ OnlyQueue

QueueNext == QueueReset \/ QueueRead \/ QueuePop

SpecQueue == Init /\ [][QueueNext]_vars

\* ------------------------------------------- the trajectory arithmetic
\* _gen_next_raw_transform's appends and _gen_transforms on rows (dx, dy, da)
\* of any values, under any truncation length frame_queue._max_frames
Rows == {<<dx, dy, 0>> : dx \in -1..1, dy \in 0..1}

OnlyTrajectory ==
    UNCHANGED << aside, window, frame_queue, prev_gray, border_options,
                 layer_options, writer,
                 auto_border_flag, _default_stabilize_frame_output, pc, call,
                 written, ret, hist >>

InitTrajectory ==
    /\ window \in 1..MaxWindow
    /\ \E n \in {None} \cup (1..MaxFrames) :
          frame_queue = [FrameQueue0 EXCEPT !._max_frames = n]
    /\ _raw_transforms = <<>>
    /\ prev_gray = None
    /\ _trajectory = <<>>
    /\ trajectory = NoTransforms
    /\ smoothed_trajectory = NoTransforms
    /\ transforms = NoTransforms
    /\ border_options = BorderOptions("None", FALSE, <<>>)
    /\ layer_options = LayerOptions0
    /\ new_frame = NoFrameObject
    /\ estimator = Estimator0(Inf)
    /\ borders = NoBorders
    /\ ngen = 0
    /\ writer = "None"
    /\ auto_border_flag = FALSE
    /\ _default_stabilize_frame_output = "None"
    /\ pc = "idle"
    /\ call = NoCall
    /\ written = <<>>
    /\ ret = Ret("none", None, None)
    /\ hist = [runs |-> 0, fed |-> 0, phase |-> "fresh", tick |-> 0,
              limit |-> MaxRuns, stored |-> FALSE]

TrajectoryAppend ==
    /\ Len(_raw_transforms) < MaxRows
    /\ \E transform_i \in Rows :
       \E g \in {append_transform(_raw_transforms, _trajectory, transform_i)} :
           /\ _raw_transforms' = g.raw
           /\ _trajectory' = g.traj
    /\ UNCHANGED << trajectory, smoothed_trajectory, transforms, ngen >>
    /\ OnlyTrajectory

\* transforms holds the values of the rows here
TrajectoryRecompute ==
    /\ \E t \in {_gen_transforms(frame_queue, _raw_transforms, _trajectory)} :
           /\ trajectory' = t.trajectory
           /\ smoothed_trajectory' = t.smoothed_trajectory
           /\ transforms' = t.values
    /\ ngen' = 1
    /\ UNCHANGED << _raw_transforms, _trajectory >>
    /\ OnlyTrajectory

TrajectoryNext == TrajectoryAppend \/ TrajectoryRecompute

SpecTrajectory == InitTrajectory /\ [][TrajectoryNext]_vars

\* ================================================================ claims
Black    == Ret("black", None, None)
NoneRet  == Ret("None", None, None)
Frame(f, row) == Ret("frame", f, row)

\* C1: on a fresh object fed only non-None arrays with
\* use_stored_transforms=False, call number k (0-based) returns the black
\* warm-up frame for k < window, and for k >= window frame k - window warped
\* by row k - window, the row estimated from frames k - window, k - window + 1.
C1_DelayLaw ==
    hist.phase = "feeding" =>
        LET k == hist.fed - 1
        IN  IF k < window
            THEN ret = Black
            ELSE /\ ret = Frame(k - window, k - window)
                 /\ transforms[k - window + 1] = <<k - window, k - window + 1>>

C1_Witness ==
    /\ hist.phase = "feeding"
    /\ hist.fed > window + 1
    /\ ret.kind = "frame"

\* C2 (the claim as stated): every frame stabilize writes is warped with
\* the transforms row of its own input index.
C2_RowOfOwnIndex ==
    \A j \in 1..Len(written) : written[j][2] = written[j][1]

\* C3: the frames stabilize writes are input frames 0, 1, 2, ... in order,
\* none twice, none skipped.
C3_WrittenInOrder ==
    \A j \in 1..Len(written) : written[j][1] = j - 1

C3_Witness ==
    /\ pc = "idle"
    /\ call.kind = "stabilize"
    /\ ~frame_queue.grabbed_frame
    /\ Len(written) > window + 1

\* C4 (the claim as stated): once the caller has passed n >= 1 arrays and
\* then only None, some call returns None.
C4_EventuallyNone ==
    (hist.phase = "draining") ~> (ret.kind = "None")

\* the calls of the session that drain: input None, after more than
\* window arrays, use_stored_transforms=False throughout
DrainCall == hist'.phase = "draining" /\ hist.fed > window

\* C5 (the claim as stated): each draining call returns the stabilized
\* oldest buffered frame, and None only when it finds the buffer empty.
C5_DrainEmitsEveryFrame ==
    [][ DrainCall =>
          LET fr == frame_queue.frames
          IN  /\ Len(fr) >= 1 => ret' = Frame(Head(fr), Head(fr))
              /\ ret'.kind = "None" => Len(fr) = 0 ]_vars

\* C5 (amended): a draining call that finds two or more frames buffered
\* returns the stabilized oldest one and removes it; the call that finds
\* only the last frame pushed removes it and returns None, that frame
\* having no transforms row; a call that finds the buffer empty returns None.
C5_DrainLaw ==
    [][ DrainCall =>
          LET fr == frame_queue.frames
          IN  /\ Len(fr) >= 2 => /\ ret' = Frame(Head(fr), Head(fr))
                                 /\ frame_queue'.frames = Tail(fr)
              /\ Len(fr) = 1 => /\ Head(fr) = hist.fed - 1
                                /\ Len(transforms') = hist.fed - 1
                                /\ ret' = NoneRet
                                /\ frame_queue'.frames = <<>>
              /\ Len(fr) = 0 => ret' = NoneRet ]_vars

C5_Witness ==
    /\ hist.phase = "draining"
    /\ hist.fed > window + 1
    /\ ret = NoneRet
    /\ frame_queue.frames = <<>>
    /\ Len(transforms) = hist.fed - 1

\* a stabilize call on a fresh object that returned normally, transforms
\* computed by the call, no cap, no playback abort
PlainStabilizeDone ==
    /\ pc = "idle"
    /\ call.kind = "stabilize"
    /\ call.fresh
    /\ ~call.stored_arg
    /\ call.max_frames = Inf
    /\ ~call.aborted
    /\ ret.kind = "ok"

\* C6 (the claim as stated): stabilize on N > window + 1 frames writes
\* exactly N - 1 frames.
C6_WritesAllButOne ==
    (PlainStabilizeDone /\ call.n > window + 1) => Len(written) = call.n - 1

\* C7: the frame deque never holds more than smoothing_window + 1 frames,
\* and a push onto a full deque removes exactly the oldest frame.
C7_BufferCap ==
    /\ [](Len(frame_queue.frames) <= window + 1)
    /\ [][ ( /\ frame_queue'.npush = frame_queue.npush + 1
             /\ Len(frame_queue.frames) = window + 1 )
           => /\ Len(frame_queue'.frames) = window + 1
              /\ SubSeq(frame_queue'.frames, 1, window) = Tail(frame_queue.frames)
       ]_vars

C7_Witness ==
    /\ Len(frame_queue.frames) = window + 1
    /\ frame_queue.npush > window + 1

\* C8 (the claim as stated): outside the pipeline frames and inds have the
\* same length and inds[j] is the input index of frames[j].
C8_QueuesAligned ==
    pc = "idle" =>
        /\ Len(frame_queue.frames) = Len(frame_queue.inds)
        /\ \A j \in 1..Len(frame_queue.frames) :
              frame_queue.inds[j] = frame_queue.frames[j]

\* C9 (the claim as stated): after reset_queue the j-th frame pushed is
\* given index j, whatever the pops in between.
C9_IndexIsPushOrdinal ==
    frame_queue.npush > 0 => frame_queue.assigned = frame_queue.npush - 1

\* C9 (amended): the j-th frame pushed is given index j as long as no push
\* after the first found the index deque emptied by pops.
C9_IndexUnlessEmptied ==
    (frame_queue.npush > 0 /\ ~frame_queue.restarted)
        => frame_queue.assigned = frame_queue.npush - 1

C9_Witness ==
    /\ frame_queue.npush > window + 1
    /\ ~frame_queue.restarted
    /\ Len(frame_queue.inds) < Len(frame_queue.frames)

\* the object computes its transforms itself and has seen its first frame
Estimating ==
    /\ prev_gray # None
    /\ \/ hist.phase \in {"feeding", "draining"}
       \/ /\ call.kind \in {"stabilize", "gen_transforms"}
          /\ call.fresh
          /\ ~call.stored_arg
          /\ ~call.auto

\* C10 (the claim as stated): raw row i is estimated from frame i to frame
\* i + 1, so the rows number (frames pushed) - 1.
C10_RawRowsConsecutive ==
    Estimating =>
        /\ Len(_raw_transforms) = frame_queue.npush - 1
        /\ \A i \in 1..Len(_raw_transforms) : _raw_transforms[i] = <<i - 1, i>>

\* a gen_transforms call on a fresh object
FreshGenTransforms == call.kind = "gen_transforms" /\ call.fresh

\* C11: gen_transforms on a fresh object over N >= 2 frames reads every
\* frame once, recomputes exactly once, after end-of-stream, and ends with
\* trajectory, smoothed_trajectory and transforms of N - 1 rows each.
C11_GenTransformsRows ==
    (FreshGenTransforms /\ call.n >= 2) =>
        /\ pc = "init" => ngen = 0
        /\ pc = "idle" =>
              /\ ret.kind = "ok"
              /\ ngen = 1
              /\ ~frame_queue.grabbed_frame
              /\ frame_queue.source_pos = call.n
              /\ frame_queue.npush = call.n
              /\ Len(trajectory) = call.n - 1
              /\ Len(smoothed_trajectory) = call.n - 1
              /\ Len(transforms) = call.n - 1

C11_Witness ==
    /\ FreshGenTransforms
    /\ call.n > window + 1
    /\ pc = "idle"
    /\ Len(transforms) = call.n - 1

\* the step ran _gen_transforms
Recomputed == ngen' # ngen

\* C12 (the claim as stated): after every recompute the raw list,
\* trajectory, smoothed_trajectory and transforms have the same number of rows.
C12_SameRowCount ==
    [][ Recomputed =>
          /\ Len(trajectory') = Len(_raw_transforms')
          /\ Len(smoothed_trajectory') = Len(_raw_transforms')
          /\ Len(transforms') = Len(_raw_transforms') ]_vars

\* C12 (amended): after every recompute trajectory, smoothed_trajectory and
\* transforms have the same number of rows, and the raw list and the
\* trajectory list have the same number of rows; the three arrays are
\* prefixes and so never longer than the raw list, which is never truncated.
C12_ArraysSameRowCount ==
    [][ Recomputed =>
          /\ Len(_trajectory') = Len(_raw_transforms')
          /\ Len(trajectory') = Len(transforms')
          /\ Len(smoothed_trajectory') = Len(transforms')
          /\ Len(transforms') <= Len(_raw_transforms')
          /\ transforms' = Prefix(_raw_transforms', Len(transforms'))
          /\ trajectory' = Prefix(_trajectory', Len(transforms')) ]_vars

C12_Witness ==
    /\ pc = "apply"
    /\ ~call.use_stored_transforms
    /\ Len(written) > 0
    /\ Len(transforms) < Len(_raw_transforms)
    /\ Len(trajectory) = Len(transforms)

\* C13: the trajectory list is the running componentwise sum of the raw
\* list, and an append never changes an earlier trajectory row.
C13_TrajectoryLaw ==
    /\ [](/\ Len(_trajectory) = Len(_raw_transforms)
          /\ \A i \in 1..Len(_trajectory) :
                IF i = 1
                THEN _trajectory[1] = _raw_transforms[1]
                ELSE \A j \in 1..3 :
                        _trajectory[i][j] = _trajectory[i - 1][j] + _raw_transforms[i][j])
    /\ [][ \A i \in 1..Len(_trajectory) : _trajectory'[i] = _trajectory[i] ]_vars

C13_Witness ==
    /\ Len(_trajectory) = MaxRows
    /\ _trajectory[MaxRows] # _raw_transforms[MaxRows]
    /\ _trajectory[MaxRows][1] = -2

ZeroRows(arr) == \A i \in 1..Len(arr) : arr[i] = <<0, 0, 0>>

\* C14: if every raw row is (0,0,0), every row of trajectory,
\* smoothed_trajectory and transforms is (0,0,0) after a recompute.
C14_ZeroMotion ==
    (ngen > 0 /\ ZeroRows(_raw_transforms)) =>
        /\ ZeroRows(trajectory)
        /\ ZeroRows(smoothed_trajectory)
        /\ ZeroRows(transforms)

C14_Witness ==
    /\ ngen > 0
    /\ ZeroRows(_raw_transforms)
    /\ window > 1
    /\ Len(_raw_transforms) > window
    /\ Len(transforms) = Len(_raw_transforms)

\* a recompute inside a stabilize call with a finite max_frames
CappedRecompute ==
    /\ Recomputed
    /\ call'.kind = "stabilize"
    /\ call'.max_frames # Inf

\* C15: when stabilize is called with a finite max_frames = M, after every
\* recompute trajectory, smoothed_trajectory and transforms are the first
\* min(K, M - 1) of the K rows computed from the raw transforms, so at most
\* M - 1 rows.
C15_Truncation ==
    [][ CappedRecompute =>
          /\ transforms' = Prefix(_raw_transforms', call'.max_frames - 1)
          /\ trajectory' = Prefix(_trajectory', call'.max_frames - 1)
          /\ smoothed_trajectory' =
                Prefix(bfill_rolling_mean(_trajectory', window),
                       call'.max_frames - 1)
          /\ Len(transforms') <= call'.max_frames - 1 ]_vars

\* stabilize that estimates its own transforms, without the auto-border pass
PlainEstimatingCall ==
    /\ call.kind = "stabilize"
    /\ ~call.stored_arg
    /\ ~auto_border_flag

\* the apply loop is entered and has not run an iteration yet
ApplyLoopStart == PlainEstimatingCall /\ pc = "apply" /\ written = <<>>

\* raw transforms computed by the running call: one per frame after the first
RowsOfCall == frame_queue.npush - 1

\* C16 (the claim as stated): on a source long enough, the apply loop starts
\* exactly when min(max_frames, smoothing_window) raw transforms have been
\* computed.
C16_StartsAtMinOfCapAndWindow ==
    (ApplyLoopStart /\ call.n > Min(call.max_frames, window))
        => RowsOfCall = Min(call.max_frames, window)

\* the raw transforms in hand when _init_trajectory leaves its loop
StartRows == Max(1, Min(call.max_frames - 1, window))

\* C16 (amended): on a source of more than StartRows frames, the apply loop
\* starts exactly when max(1, min(max_frames - 1, smoothing_window)) raw
\* transforms have been computed: never with fewer, and bootstrapping never
\* goes on with that many in hand.
C16_StartsAtStartRows ==
    (PlainEstimatingCall /\ call.n > StartRows) =>
        /\ ApplyLoopStart =>
              /\ RowsOfCall = StartRows
              /\ call.fresh => Len(_raw_transforms) = StartRows
        /\ pc = "init" => RowsOfCall < StartRows

C16_Witness ==
    /\ ApplyLoopStart
    /\ call.max_frames \in 2..window
    /\ call.n > call.max_frames
    /\ RowsOfCall = call.max_frames - 1

\* stabilize with an automatic border and no stored transforms
AutoBorderCall ==
    /\ call.kind = "stabilize"
    /\ ~call.stored_arg
    /\ auto_border_flag

\* the apply pass of the call: refilling the queue, warping, done
ApplyPass == pc \in {"populate", "apply"} \/ written # <<>>

\* C17: with an automatic border and no stored transforms, stabilize ends
\* transform generation over the whole input before a frame is warped or
\* written, restarts reading at the first frame for the apply pass, and the
\* one border used for every output frame is derived from the transforms of
\* that generation pass, which the apply pass never changes.
C17_AutoBorderTwoPasses ==
    /\ [](AutoBorderCall =>
            /\ pc = "init" => (written = <<>> /\ writer = "None")
            /\ (ApplyPass /\ call.fresh) =>
                  /\ ngen = 1
                  /\ Len(_raw_transforms) = call.n - 1
                  /\ transforms = Prefix(_raw_transforms, call.max_frames - 1)
            /\ (pc = "populate" /\ call.k = 0) =>
                  (frame_queue.source_pos = 0 /\ frame_queue.npush = 0)
            /\ written # <<>> => written[1] = <<0, 0>>
            /\ (pc = "apply" \/ written # <<>>) =>
                  /\ border_options.auto
                  /\ border_options.from = transforms)
    /\ [][ (AutoBorderCall /\ pc \in {"populate", "apply"}) =>
              /\ transforms' = transforms
              /\ _raw_transforms' = _raw_transforms
              /\ pc = "apply" => border_options' = border_options ]_vars

C17_Witness ==
    /\ AutoBorderCall
    /\ call.fresh
    /\ call.n > window + 1
    /\ pc = "idle"
    /\ ret.kind = "ok"
    /\ Len(written) = call.n - 1
    /\ border_options.from = transforms

\* the apply loop of the last stabilize call ended early
EndedEarly ==
    /\ pc = "idle"
    /\ call.kind = "stabilize"
    /\ call.aborted \/ call.halted

\* C18: when the apply loop of stabilize ends early (transforms[i] out of
\* range, or playback aborted), stabilize returns normally with the writer
\* released and None, also when no frame has been written yet.
C18_EarlyExitReturnsNormally ==
    EndedEarly => (ret.kind = "ok" /\ writer = "None")

\* a stabilize or gen_transforms call that opened its input has ended,
\* by return or by exception
BatchCallEnded ==
    /\ pc = "idle"
    /\ call.kind \in {"stabilize", "gen_transforms"}
    /\ ret.kind # "FileNotFoundError"

\* C19: on every exit path of stabilize and gen_transforms the source handle
\* opened by the call is released (the queue holds no open source) and the
\* writer created by the call is released.
C19_HandlesReleased ==
    BatchCallEnded => (~frame_queue.source /\ writer = "None")

\* the running or last batch call is stabilize with a border type that
\* transform_frame does not accept
BatchInvalidBorder ==
    /\ call.kind = "stabilize"
    /\ call.border_type \notin BorderTypes

\* the last stabilize_frame call had such a border type
StreamInvalidBorder ==
    /\ call.kind = "none"
    /\ border_options.border_type \notin (BorderTypes \cup {"None"})

\* C20: a border_type outside {black, reflect, replicate} is rejected with
\* an error by the very call it is passed to: stabilize ends with the error
\* before a frame is read or a transform computed, and stabilize_frame raises
\* on that call, warm-up or not.
C20_InvalidBorderRejectedAtCall ==
    /\ BatchInvalidBorder =>
          /\ pc = "idle"
          /\ ret.kind = "ValueError"
          /\ frame_queue.npush = 0
          /\ call.fresh => Len(_raw_transforms) = 0
    /\ StreamInvalidBorder => ret.kind = "ValueError"

\* the object holds no transforms: none computed, none stored

\* ---------------------------------------------------------------------
\* frame.py: the Frame class. An image is its numpy shape, a tuple of
\* 1..MaxNdim extents in 1..MaxExtent.
MaxNdim == 4
MaxExtent == 5

RECURSIVE Shapes(_)
Shapes(n) ==
    IF n = 0 THEN {<<>>}
    ELSE {Append(sh, d) : sh \in Shapes(n - 1), d \in 1..MaxExtent}

ImageShapes == UNION {Shapes(n) : n \in 1..MaxNdim}

ColorFormatArgs == {"None", "GRAY", "BGR", "BGRA"}

\* Frame._guess_color_format: shape[2] of a 1-D image is an IndexError
_guess_color_format(shape) ==
    IF Len(shape) = 2 THEN [color_format |-> "GRAY", raised |-> "None"]
    ELSE IF Len(shape) < 3 THEN [color_format |-> "None", raised |-> "IndexError"]
    ELSE IF shape[3] = 3 THEN [color_format |-> "BGR", raised |-> "None"]
    ELSE IF shape[3] = 4 THEN [color_format |-> "BGRA", raised |-> "None"]
    ELSE [color_format |-> "None", raised |-> "ValueError"]

\* Frame.__init__(image, color_format): runs once for an object
Frame__init__(image, color_format) ==
    /\ new_frame' =
           IF color_format = "None"
           THEN [image |-> image, arg |-> color_format]
                    @@ _guess_color_format(image)
           ELSE [image |-> image, arg |-> color_format,
                 color_format |-> color_format, raised |-> "None"]
    /\ UNCHANGED << stabilizer, estimator, borders >>

NewFrame ==
    /\ new_frame = NoFrameObject
    /\ \E image \in ImageShapes, color_format \in ColorFormatArgs :
          Frame__init__(image, color_format)

SpecFrame == Init /\ [][NewFrame]_vars


\* ---------------------------------------------------------------------
\* The motion estimator on its own: _process_first_frame and
\* _gen_next_raw_transform over gray frames <<height, width>>. A frame
\* comes with the motion of the scene since the previous frame, in pixels
\* of the full frame, and with what the tracking makes of it.
MaxSteps == 3

Sides == {2, 4}
FrameShapes == Sides \X Sides
Motions == {<<0, 0, 0>>, <<2, 0, 0>>, <<0, 2, 1>>}
StatusArgs == {"None", "zeros", "ones"}
ProcessingMaxDimArgs == {None, 2, Inf}

\* imutils.resize(frame, **kwargs): no argument returns the frame; the
\* named side becomes the value, the other int(side * ratio)
resize(shape, kwargs) ==
    IF kwargs.name = "height"
    THEN <<kwargs.value, (shape[2] * kwargs.value) \div shape[1]>>
    ELSE IF kwargs.name = "width"
    THEN <<(shape[1] * kwargs.value) \div shape[2], kwargs.value>>
    ELSE shape

\* the decision of _resize_frame for a frame of this shape
decide_resize(e, shape) ==
    IF Max(shape[1], shape[2]) <= e.processing_max_dim
    THEN [e EXCEPT !.processing_max_dim = Max(shape[1], shape[2]),
                   !._processing_resize_kwargs = NoKwargs]
    ELSE [e EXCEPT !._processing_resize_kwargs =
             [name |-> IF shape[1] >= shape[2] THEN "height" ELSE "width",
              value |-> e.processing_max_dim]]

\* mutant of _resize_frame: the decision is taken again on every frame
_resize_frame_every_frame(e, shape) ==
    LET d == IF e.processing_max_dim \notin {None, 0}
             THEN decide_resize(e, shape)
             ELSE e
    IN  [d EXCEPT !.cur.shape = shape,
                  !.cur.resized = resize(shape, d._processing_resize_kwargs)]

\* _resize_frame(frame): the estimator after the call, cur.resized the
\* frame returned
_resize_frame(e, shape) ==
    LET d == IF e._processing_resize_kwargs = EmptyKwargs
                /\ e.processing_max_dim \notin {None, 0}
             THEN decide_resize(e, shape)
             ELSE e
    IN  [d EXCEPT !.cur.shape = shape,
                  !.cur.resized = resize(shape, d._processing_resize_kwargs)]

\* match_keypoints: the number of pairs kept, none without a status or
\* with a status of zeros
match_keypoints(status) == IF status = "ones" THEN 2 ELSE 0

\* cv2_estimateRigidTransform: no transform from fewer than 2 pairs or
\* when the fit fails; otherwise the motion as the processed images show it
cv2_estimateRigidTransform(pairs, estimable, shape, resized, motion) ==
    IF pairs < 2 \/ ~estimable
    THEN <<>>
    ELSE <<(motion[1] * resized[2]) \div shape[2],
           (motion[2] * resized[1]) \div shape[1],
           motion[3]>>

\* mutant of estimate_partial_transform: a missing transform is passed on
\* as the frame's motion instead of the zero row
estimate_partial_transform_no_zero(transform, motion) ==
    IF transform # <<>> THEN transform ELSE motion

\* estimate_partial_transform: [dx, dy, da], zeros without a transform
\* (motion is not an argument of the source; the mutant above reads it)
estimate_partial_transform(transform, motion) ==
    IF transform # <<>> THEN transform ELSE <<0, 0, 0>>

\* _process_first_frame on a frame of this shape
process_first_frame(shape) ==
    /\ estimator.prev_gray = <<>>
    /\ \E e \in {_resize_frame(estimator, shape)} :
          estimator' = [e EXCEPT !.prev_gray = e.cur.resized]
    /\ UNCHANGED << stabilizer, new_frame, borders >>

\* _gen_next_raw_transform on a frame of this shape
gen_next_raw_transform(shape, motion, status, estimable) ==
    /\ estimator.prev_gray # <<>>
    /\ Len(estimator._raw_transforms) < MaxSteps
    /\ \E e \in {_resize_frame(estimator, shape)} :
       \E transform_i \in {estimate_partial_transform(
                               cv2_estimateRigidTransform(
                                   match_keypoints(status), estimable,
                                   shape, e.cur.resized, motion),
                               motion)} :
          estimator' =
              [e EXCEPT !.prev_gray = e.cur.resized,
                        !._raw_transforms = Append(@, transform_i),
                        !._trajectory = _update_trajectory(@, transform_i),
                        !.cur.motion = motion,
                        !.cur.status = status,
                        !.cur.estimable = estimable]
    /\ UNCHANGED << stabilizer, new_frame, borders >>

ProcessFirstFrame == \E shape \in FrameShapes : process_first_frame(shape)

GenNextRawTransform ==
    \E shape \in FrameShapes, motion \in Motions, status \in StatusArgs,
       estimable \in BOOLEAN :
        gen_next_raw_transform(shape, motion, status, estimable)

\* VidStab(processing_max_dim=...) with any cap
InitEstimator ==
    /\ window = 1
    /\ frame_queue = FrameQueue0
    /\ _raw_transforms = <<>>
    /\ prev_gray = None
    /\ _trajectory = <<>>
    /\ trajectory = NoTransforms
    /\ smoothed_trajectory = NoTransforms
    /\ transforms = NoTransforms
    /\ border_options = BorderOptions("None", FALSE, <<>>)
    /\ layer_options = LayerOptions0
    /\ new_frame = NoFrameObject
    /\ \E processing_max_dim \in ProcessingMaxDimArgs :
          estimator = Estimator0(processing_max_dim)
    /\ borders = NoBorders
    /\ ngen = 0
    /\ writer = "None"
    /\ auto_border_flag = FALSE
    /\ _default_stabilize_frame_output = "None"
    /\ pc = "idle"
    /\ call = NoCall
    /\ written = <<>>
    /\ ret = Ret("none", None, None)
    /\ hist = [runs |-> 0, fed |-> 0, phase |-> "fresh", tick |-> 0,
              limit |-> MaxRuns, stored |-> FALSE]

EstimatorNext == ProcessFirstFrame \/ GenNextRawTransform

SpecEstimator == InitEstimator /\ [][EstimatorNext]_vars


\* ---------------------------------------------------------------------
\* Frame shapes under the border options, and the automatic border size.
\* Shapes are <<height, width>>. Lengths of the automatic border are in
\* quarter pixels (a transform is <<4*dx, 4*dy, quarter turns>>), so that
\* fractions of a pixel and the rounding are exact.
MaxBorder == 2
MaxShift == 5
MaxAutoRows == 2

\* the pad that makes room for the warp before a negative border crops
NegPad == 100

Abs(x) == IF x < 0 THEN -x ELSE x

BorderSizeArgs == (-MaxBorder)..MaxBorder
VideoShapes == {<<240, 320>>, <<320, 240>>, <<300, 300>>}

\* border_utils.functional_border_sizes(border_size)
functional_border_sizes(border_size) ==
    IF border_size < 0
    THEN [border_size |-> NegPad + Abs(border_size), neg_border_size |-> NegPad]
    ELSE [border_size |-> border_size, neg_border_size |-> 0]

\* border_utils.crop_frame(frame, border_options), not the auto border
crop_frame(shape, bo) ==
    IF bo.neg_border_size = 0
    THEN shape
    ELSE <<shape[1] - 2 * bo.neg_border_size,
           shape[2] - 2 * bo.neg_border_size>>

\* border_frame(frame, border_size, border_type): cv2.copyMakeBorder with
\* border_size on each side; border_modes[border_type] is a KeyError for
\* an unknown type
border_frame(shape, border_size, border_type) ==
    IF border_type \notin BorderTypes
    THEN [raised |-> "KeyError", shape |-> <<>>]
    ELSE [raised |-> "None",
          shape |-> <<shape[1] + 2 * border_size, shape[2] + 2 * border_size>>]

\* the frame a warmed-up stabilize_frame returns: transform_frame (the
\* warp keeps the shape of the bordered frame), then crop_frame
stabilized_shape(shape, bo, border_type) ==
    IF border_type \notin BorderTypes
    THEN [raised |-> "ValueError", shape |-> <<>>]
    ELSE [raised |-> "None",
          shape |-> crop_frame(border_frame(shape, bo.border_size,
                                            border_type).shape,
                               bo)]

\* the blank frame of the first stabilize_frame call
blank_frame(shape, bo, border_type) ==
    IF bo.border_size > 0
    THEN border_frame(crop_frame(shape, bo),
                      bo.border_size, border_type)
    ELSE [raised |-> "None", shape |-> crop_frame(shape, bo)]

\* stabilize_frame, first call: the shapes of its input, of the blank frame
\* it returns and of the stabilized frames that follow
WarmUpFrame ==
    /\ borders = NoBorders
    /\ \E shape \in VideoShapes, border_size \in BorderSizeArgs,
          border_type \in BorderTypes \cup {"sepia"} :
       \E bo \in {functional_border_sizes(border_size)} :
          borders' = [kind |-> "warm-up",
                      input_frame |-> shape,
                      border_size |-> border_size,
                      border_type |-> border_type,
                      border_options |-> bo,
                      blank_frame |-> blank_frame(shape, bo,
                                                  border_type),
                      stabilized |-> stabilized_shape(shape, bo,
                                                      border_type)]
    /\ UNCHANGED << stabilizer, new_frame, estimator >>

SmallShapes == {<<2, 2>>, <<2, 3>>, <<3, 2>>}
AutoRows == {<<dx, dy, q>> : dx \in (-MaxShift)..MaxShift, dy \in {-2, 0},
                            q \in 0..1}

RECURSIVE SeqsUpTo(_, _)
SeqsUpTo(S, n) ==
    IF n = 0 THEN {<<>>}
    ELSE SeqsUpTo(S, n - 1)
         \cup {Append(sq, x) : sq \in {t \in SeqsUpTo(S, n - 1) : Len(t) = n - 1},
                               x \in S}

\* build_transformation_matrix(transform) for da a number of quarter turns
build_transformation_matrix(transform) ==
    IF transform[3] = 0
    THEN << <<1, 0, transform[1]>>, <<0, 1, transform[2]>> >>
    ELSE << <<0, -1, transform[1]>>, <<1, 0, transform[2]>> >>

\* the corners of the frame rectangle as points <<x, y>>, in quarter pixels
frame_corners(shape) ==
    {<<4 * x, 4 * y>> : x \in {0, shape[2] - 1}, y \in {0, shape[1] - 1}}

\* a point under the 2x3 matrix
affine(m, pt) ==
    <<m[1][1] * pt[1] + m[1][2] * pt[2] + m[1][3],
      m[2][1] * pt[1] + m[2][2] * pt[2] + m[2][3]>>

SetMax(S) == CHOOSE x \in S : \A y \in S : y <= x
SetMin(S) == CHOOSE x \in S : \A y \in S : x <= y

\* auto_border_utils.extreme_corners(frame, transforms): the largest
\* displacement of a corner in each direction over all rows
extreme_corners(shape, rows) ==
    LET delta == {<<affine(build_transformation_matrix(rows[i]), c)[1] - c[1],
                    affine(build_transformation_matrix(rows[i]), c)[2] - c[2]>> :
                      i \in 1..Len(rows), c \in frame_corners(shape)}
    IN  [min_x |-> SetMin({0} \cup {d[1] : d \in delta}),
         min_y |-> SetMin({0} \cup {d[2] : d \in delta}),
         max_x |-> SetMax({0} \cup {d[1] : d \in delta}),
         max_y |-> SetMax({0} \cup {d[2] : d \in delta})]

\* round() of a non-negative number of quarters: halves go to the even side
round(v) ==
    IF v % 4 < 2 THEN v \div 4
    ELSE IF v % 4 > 2 THEN v \div 4 + 1
    ELSE IF (v \div 4) % 2 = 0 THEN v \div 4 ELSE v \div 4 + 1

\* mutant of min_auto_border_size: the fraction is cut off
min_auto_border_size_floor(extreme) ==
    SetMax({Abs(extreme.min_x), Abs(extreme.min_y),
            Abs(extreme.max_x), Abs(extreme.max_y)}) \div 4

\* auto_border_utils.min_auto_border_size(extreme_frame_corners), in pixels
min_auto_border_size(extreme) ==
    round(SetMax({Abs(extreme.min_x), Abs(extreme.min_y),
                  Abs(extreme.max_x), Abs(extreme.max_y)}))

\* stabilize with border_size='auto': the border size from the first frame
\* and the transforms
AutoBorderSize ==
    /\ borders = NoBorders
    /\ \E shape \in SmallShapes, rows \in SeqsUpTo(AutoRows, MaxAutoRows) :
       \E extreme \in {extreme_corners(shape, rows)} :
          borders' = [kind |-> "auto",
                      frame_1 |-> shape,
                      transforms |-> rows,
                      extreme_frame_corners |-> extreme,
                      border_size |-> min_auto_border_size(extreme)]
    /\ UNCHANGED << stabilizer, new_frame, estimator >>

BorderNext == WarmUpFrame \/ AutoBorderSize

InitBorder == Init /\ window = 1

SpecBorder == InitBorder /\ [][BorderNext]_vars

HoldsNoTransforms == transforms = NoTransforms

\* the running or last batch call is stabilize with use_stored_transforms=True
StoredStabilize == call.kind = "stabilize" /\ call.stored_arg

\* the last call was stabilize_frame with use_stored_transforms=True
StoredStabilizeFrame == call.kind = "none" /\ hist.phase # "fresh" /\ hist.stored

\* C21: stabilize or stabilize_frame with use_stored_transforms=True on an
\* object that holds no transforms reports the error for missing transforms
\* (the code has no error class of its own: TypeError is what indexing
\* transforms = None raises), and writes or returns no frame.
C21_EmptyTransformsError ==
    /\ (StoredStabilize /\ HoldsNoTransforms) =>
          /\ written = <<>>
          /\ pc = "idle" => ret.kind = "TypeError"
    /\ (StoredStabilizeFrame /\ HoldsNoTransforms) => ret.kind = "TypeError"

\* stabilize called with a finite max_frames
CappedStabilize ==
    /\ call.kind = "stabilize"
    /\ call.max_frames # None
    /\ call.max_frames # Inf

\* C23: stabilize called with a finite max_frames = M never writes more than
\* M frames, with stored transforms or not, with an automatic border or not,
\* for every source length.
C23_AtMostMaxFramesWritten ==
    CappedStabilize => Len(written) <= call.max_frames

\* a call that estimated its own transforms has returned
EstimatedAndReturned ==
    /\ pc = "idle"
    /\ ret.kind = "ok"
    /\ \/ call.kind = "gen_transforms"
       \/ call.kind = "stabilize" /\ ~call.stored_arg

\* the raw row estimated from frames i and i + 1 of the input (frames are
\* numbered from 0, rows of a sequence from 1)
RowOfFrames(i) == <<i, i + 1>>

\* C30: the transforms of a gen_transforms call, or of a stabilize call that
\* estimates its own, depend on that call's input only: also on a used
\* object, row i is the row of this input's frames i and i + 1, and
\* gen_transforms over N frames leaves N - 1 rows as on a fresh object.
C30_TransformsOfThisInputOnly ==
    EstimatedAndReturned =>
        /\ \A i \in 1..Len(transforms) : transforms[i] = RowOfFrames(i - 1)
        /\ call.kind = "gen_transforms" => Len(transforms) = Max(0, call.n - 1)


LayeredOutput ==
    /\ call.kind = "stabilize"
    /\ call.layer_func
    /\ written # <<>>

UntaggedFrame == new_frame.image # <<>> /\ new_frame.arg = "None"

\* C26: a Frame built without a color tag is GRAY for a 2-D image, BGR for
\* three channels, BGRA for four channels, and for every other shape the
\* construction fails with ValueError
C26_GuessOrValueError ==
    UntaggedFrame =>
        \E image \in {new_frame.image} :
            IF Len(image) = 2
            THEN new_frame.color_format = "GRAY" /\ new_frame.raised = "None"
            ELSE IF Len(image) = 3 /\ image[3] = 3
            THEN new_frame.color_format = "BGR" /\ new_frame.raised = "None"
            ELSE IF Len(image) = 3 /\ image[3] = 4
            THEN new_frame.color_format = "BGRA" /\ new_frame.raised = "None"
            ELSE new_frame.raised = "ValueError"


Estimated ==
    /\ estimator._raw_transforms # <<>>
    /\ estimator.cur.status = "ones"
    /\ estimator.cur.estimable

\* C24: the dx, dy of a row appended to the raw transforms are the motion
\* in pixels of the full frame, also when the frames were downscaled for
\* the estimation
C24_RowsInFullResolutionPixels ==
    Estimated => Last(estimator._raw_transforms) = estimator.cur.motion

HasCap(e) == e.processing_max_dim \notin {None, 0}

\* C28: with a processing_max_dim the resize decision is taken on the
\* first frame processed (within the cap: never resize; otherwise the
\* longest side of that frame set to the cap), it never changes later,
\* and every frame is resized by it
C28_ResizeDecidedOnce ==
    [][HasCap(estimator) =>
          /\ estimator.cur.shape = <<>> =>
                estimator'._processing_resize_kwargs =
                    IF Max(estimator'.cur.shape[1], estimator'.cur.shape[2])
                           <= estimator.processing_max_dim
                    THEN NoKwargs
                    ELSE [name |-> IF estimator'.cur.shape[1]
                                        >= estimator'.cur.shape[2]
                                   THEN "height" ELSE "width",
                          value |-> estimator.processing_max_dim]
          /\ estimator.cur.shape # <<>> =>
                estimator'._processing_resize_kwargs =
                    estimator._processing_resize_kwargs
          /\ estimator'.cur.resized =
                resize(estimator'.cur.shape,
                       estimator'._processing_resize_kwargs)
          /\ estimator'._processing_resize_kwargs = NoKwargs =>
                estimator'.cur.resized = estimator'.cur.shape]_vars

\* a frame larger than the cap is processed unresized after a first frame
\* within the cap
C28_Witness ==
    /\ estimator.processing_max_dim = 2
    /\ estimator._processing_resize_kwargs = NoKwargs
    /\ estimator._raw_transforms # <<>>
    /\ estimator.cur.shape = <<4, 4>>
    /\ estimator.cur.resized = <<4, 4>>

Degenerate(cur) == cur.status # "ones" \/ ~cur.estimable

\* C29: a step on a frame whose tracking keeps no pair (no status, or a
\* status of zeros) or whose fit fails appends the zero row, repeats the
\* last trajectory row, replaces the previous gray image by the current
\* one and leaves the earlier rows alone
C29_DegenerateFrameGivesZeroRow ==
    [][(/\ Len(estimator'._raw_transforms) = Len(estimator._raw_transforms) + 1
        /\ Degenerate(estimator'.cur)) =>
          /\ Last(estimator'._raw_transforms) = <<0, 0, 0>>
          /\ Last(estimator'._trajectory) =
                IF estimator._trajectory = <<>>
                THEN <<0, 0, 0>>
                ELSE Last(estimator._trajectory)
          /\ estimator'.prev_gray = estimator'.cur.resized
          /\ SubSeq(estimator'._raw_transforms, 1,
                    Len(estimator._raw_transforms)) = estimator._raw_transforms
          /\ SubSeq(estimator'._trajectory, 1,
                    Len(estimator._trajectory)) = estimator._trajectory]_vars

\* a frame that moved but could not be tracked, after a frame that was
C29_Witness ==
    /\ Len(estimator._trajectory) = 2
    /\ estimator.cur.status = "zeros"
    /\ estimator.cur.motion # <<0, 0, 0>>
    /\ estimator._raw_transforms[2] = <<0, 0, 0>>
    /\ estimator._trajectory[1] # <<0, 0, 0>>
    /\ estimator._trajectory[2] = estimator._trajectory[1]


WarmUpReturned ==
    /\ borders.kind = "warm-up"
    /\ borders.blank_frame.raised = "None"

\* C22: the black frame stabilize_frame returns while warming up has the
\* height and width of the input frame, whatever the border_size
C22_WarmUpFrameHasInputShape ==
    WarmUpReturned => borders.blank_frame.shape = borders.input_frame

\* the corners of frame_1 under the rows of the transforms
WarpedCorners ==
    {affine(build_transformation_matrix(borders.transforms[i]), c) :
        i \in 1..Len(borders.transforms), c \in frame_corners(borders.frame_1)}

\* the point lies in the frame rectangle padded by pad quarter pixels
InsidePadded(pt, shape, pad) ==
    /\ -pad <= pt[1] /\ pt[1] <= 4 * (shape[2] - 1) + pad
    /\ -pad <= pt[2] /\ pt[2] <= 4 * (shape[1] - 1) + pad

NumericBorderCall ==
    /\ call.kind = "stabilize"
    /\ ~call.auto

\* C31: a stabilize call with a numeric border_size runs no automatic
\* border generation pass and applies its own numeric border, also when an
\* earlier call on the object asked for border_size='auto'
C31_BorderOfThisCallOnly ==
    NumericBorderCall =>
        /\ ~call.gen_all
        /\ call.after # "auto"
        /\ pc = "apply" => ~border_options.auto


\* a stabilize_frame call has returned None and left the buffer empty
StreamEnded ==
    /\ hist.runs = 0
    /\ hist.phase # "fresh"
    /\ frame_queue.max_len # None
    /\ ret.kind = "None"
    /\ Len(frame_queue.frames) = 0

\* C32: once stabilize_frame has returned None with the buffer emptied,
\* every later call returns None, with a new frame as with None; it pushes
\* no frame and appends no transform
C32_NoneForGood ==
    [][StreamEnded =>
          /\ ret'.kind = "None"
          /\ frame_queue' = frame_queue
          /\ _raw_transforms' = _raw_transforms
          /\ _trajectory' = _trajectory
          /\ transforms' = transforms]_vars

\* a frame was handed over after the end and was not pushed
C32_Witness ==
    /\ StreamEnded
    /\ hist.fed > frame_queue.npush


\* the rows stabilize_frame has estimated when it returns input frame r - 1:
\* those of the first r + window frames, or all of them in the drain
RowsKnownAt(r) == Min(Len(_raw_transforms), r - 1 + window)

\* the transforms row stabilize_frame applies to input frame r - 1,
\* recomputed from the rows known then (its queue has no _max_frames)
streaming_row(r) ==
    _gen_transforms(FrameQueue0, Prefix(_raw_transforms, RowsKnownAt(r)),
                    Prefix(_trajectory, RowsKnownAt(r))).values[r]

\* C33: streaming and batch agree: the transforms row recomputed for input
\* frame i when only the first i + window + 1 frames are known equals row i
\* of the transforms computed from the whole sequence
C33_StreamingAgreesWithBatch ==
    transforms # NoTransforms =>
        \A r \in 1..Len(transforms) : transforms[r] = streaming_row(r)

\* a row of the whole computation that streaming computed from fewer rows,
\* with motion in the rows streaming had not seen
C33_Witness ==
    /\ transforms # NoTransforms
    /\ Len(transforms) = Len(_raw_transforms)
    /\ \E r \in 1..Len(transforms) :
          /\ RowsKnownAt(r) < Len(_raw_transforms)
          /\ _raw_transforms[Len(_raw_transforms)][1] # 0
          /\ transforms[r][1] # 0

\* in a streaming session that computes its own transforms, the frame
\* returned has the index of the row applied to it, and that row comes from
\* the raw row estimated between this frame and the next
StreamingRowOfOwnFrame ==
    (hist.runs = 0 /\ hist.phase \in {"feeding", "draining"} /\ ret.kind = "frame") =>
        /\ ret.row = ret.frame
        /\ transforms[ret.row + 1] = <<ret.row, ret.row + 1>>
        /\ Len(_raw_transforms) = Min(frame_queue.npush - 1, ret.row + window)


\* the call is in the loop of _apply_transforms
InApplyLoop == call.kind = "stabilize" /\ pc = "apply"

\* one iteration of the apply loop: it leaves the loop, or it read a new
\* frame, or it removed one buffered frame; once the source has signalled
\* end-of-stream an iteration that stays in the loop removes exactly one
ApplyIteration ==
    InApplyLoop =>
        \/ pc' = "idle"
        \/ frame_queue'.source_pos = frame_queue.source_pos + 1
        \/ /\ frame_queue'.source_pos = frame_queue.source_pos
           /\ ~frame_queue'.grabbed_frame
           /\ Len(frame_queue'.frames) = Len(frame_queue.frames) - 1

\* an iteration that finds the source ended and the buffer empty is the last
ExitWhenEmpty ==
    (InApplyLoop /\ frame_queue.source_pos = frame_queue.source_len
                 /\ Len(frame_queue.frames) = 0) => pc' = "idle"

\* C34: stabilize terminates on every finite source: no iteration of the
\* apply loop goes by without reading a new frame or removing a buffered
\* one, the loop exits once the buffer is empty, and every call returns
C34_StabilizeTerminates ==
    /\ [][ApplyIteration /\ ExitWhenEmpty]_vars
    /\ (call.kind = "stabilize" /\ pc # "idle") ~> (pc = "idle")

\* the call has returned after draining the buffer: the source ended with
\* frames still buffered, and frames were written after that
C34_Witness ==
    /\ call.kind = "stabilize"
    /\ pc = "idle"
    /\ ret.kind = "ok"
    /\ frame_queue.source_len > window
    /\ frame_queue.source_pos = frame_queue.source_len
    /\ ~frame_queue.grabbed_frame
    /\ Len(written) = frame_queue.source_len - 1

====
